---- MODULE Spec2Model ----
(***************************************************************************)
(* Model of pyyogrt: the discovery procedure of generate_bindings.py (the  *)
(* host probes, the header and library lookups, the module-level run that  *)
(* feeds cffi) and the wrapper functions of yogrt/__init__.py.             *)
(*                                                                         *)
(* A Python str is modelled as a Text: a sequence of tokens, each token a  *)
(* TLA+ string (a directory, a file name, a separator, a blank).  Str      *)
(* turns a Text into the single string it spells.  Sets of paths hold      *)
(* such single strings.                                                    *)
(***************************************************************************)
EXTENDS Integers, Sequences, FiniteSets, TLC

VARIABLES
    host,       \* the host system the probes read: environment, PATH, tools, files
    call,       \* SpecCalls: the function of generate_bindings.py called last
    ret,        \* SpecCalls: what that call returned or raised
    pc,         \* Spec: position of the module-level discovery run
    yogrt_h_path, lib_paths, header,   \* Spec: module-level names (lines 266-268)
    error,      \* Spec: the exception that aborted the run, "none" otherwise
    ffi,        \* Spec: what ffibuilder was given by cdef and set_source
    native,     \* SpecYogrt: state of the loaded native library
    wcall,      \* SpecYogrt: the wrapper called last, with its argument
    wret        \* SpecYogrt: what that wrapper returned or raised

vars == <<host, call, ret, pc, yogrt_h_path, lib_paths, header, error, ffi,
          native, wcall, wret>>

-----------------------------------------------------------------------------
(* Python values *)

NoExc == "none"

\* str | None
None == [some |-> FALSE, v |-> ""]
Some(s) == [some |-> TRUE, v |-> s]

\* Python truthiness of a str | None: None and '' are false.
Truthy(o) == o.some /\ o.v # ""

RECURSIVE Str(_)
Str(t) == IF t = <<>> THEN "" ELSE Head(t) \o Str(Tail(t))

\* str.split(sep): the pieces between the occurrences of sep; always at
\* least one piece ('' splits into ['']).
RECURSIVE SplitFrom(_, _, _)
SplitFrom(t, sep, cur) ==
    IF t = <<>> THEN <<cur>>
    ELSE IF Head(t) = sep THEN <<cur>> \o SplitFrom(Tail(t), sep, <<>>)
    ELSE SplitFrom(Tail(t), sep, Append(cur, Head(t)))

Split(t, sep) == SplitFrom(t, sep, <<>>)

Whitespace == {" ", "\t", "\n"}

RECURSIVE LStrip(_)
LStrip(t) == IF t # <<>> /\ Head(t) \in Whitespace THEN LStrip(Tail(t)) ELSE t

RECURSIVE RStrip(_)
RStrip(t) ==
    IF t # <<>> /\ t[Len(t)] \in Whitespace THEN RStrip(SubSeq(t, 1, Len(t) - 1)) ELSE t

\* str.strip()
Strip(t) == RStrip(LStrip(t))

\* list.index(x), 0-based; -1 stands for ValueError.
Index(l, x) ==
    IF \E i \in 1..Len(l) : l[i] = x
    THEN (CHOOSE i \in 1..Len(l) : l[i] = x /\ \A j \in 1..(i - 1) : l[j] # x) - 1
    ELSE -1

\* l[start:stop] with 0-based non-negative bounds.
Slice(l, start, stop) == SubSeq(l, start + 1, stop)

Range(l) == {l[i] : i \in 1..Len(l)}

-----------------------------------------------------------------------------
(* generate_bindings.py: split_paths *)

split_paths(paths) ==
    LET pieces == Split(paths, ":")
    IN  [i \in 1..Len(pieces) |-> Str(pieces[i])]

-----------------------------------------------------------------------------
(* The host system.  host is a record:                                     *)
(*   environ   os.environ: variable name -> value (a Text) or unset        *)
(*   on_path   the compiler names shutil.which finds on the search path    *)
(*   progname  exit status and output of `<compiler> -print-prog-name=cpp` *)
(*   cpp_v     exit status and output of `<cpp> -v` on empty input         *)
(*   ldconfig  whether ldconfig is installed, exit status and output of    *)
(*             `ldconfig -p`                                               *)
(*   cc_E      exit status and output of `<compiler> -E -P <header>`       *)
(*   files     the header and library files present on the filesystem      *)

EnvNames == {"CC", "YOGRT_INCLUDE_PATH", "CPATH", "C_INCLUDE_PATH",
             "YOGRT_LIBRARY_PATH", "YOGRT_LIB_PATH", "LIBRARY_PATH"}

Unset == [some |-> FALSE, v |-> <<>>]
Set(t) == [some |-> TRUE, v |-> t]

\* os.environ.get(name, None)
environ_get(name) == host.environ[name]

\* shutil.which(name)
which(name) == IF name \in host.on_path THEN Some("/usr/bin/" \o name) ELSE None

\* The programs the host can execute: the compilers on the search path, a
\* compiler installed outside it, the preprocessor, and ldconfig if installed.
Executable(prog) ==
    \/ prog \in {"/usr/bin/" \o n : n \in host.on_path}
    \/ prog \in {"/opt/bin/mycc", "cpp"}
    \/ prog = "ldconfig" /\ host.ldconfig.installed

\* subprocess.check_output(argv): FileNotFoundError when argv[0] cannot be
\* executed, CalledProcessError on a non-zero exit status, else the output.
check_output(prog, run) ==
    IF ~Executable(prog) THEN [exc |-> "FileNotFoundError", out |-> <<>>]
    ELSE IF run.rc # 0 THEN [exc |-> "CalledProcessError", out |-> <<>>]
    ELSE [exc |-> NoExc, out |-> run.out]

\* The directories of the filesystem, its symbolic links (link -> target) and
\* the paths whose resolution fails with an error other than "no such file".
Dirs == {"/usr/include", "/opt/yogrt/include", "/usr/lib", "/usr/lib64",
         "/usr/local/lib", "/opt/yogrt/lib", "/usr/lib/gcc", "/usr/lib/gcc/include",
         "/home/build", "/home/build/rel"}

Links == [p \in {"/lnk/include", "/lib"} |->
            IF p = "/lib" THEN "/usr/lib" ELSE "/opt/yogrt/include"]

Faults == [p \in {"/loop", "/root/secret/lib", "/etc/passwd/lib"} |->
            CASE p = "/loop" -> "RuntimeError"
              [] p = "/root/secret/lib" -> "PermissionError"
              [] p = "/etc/passwd/lib" -> "NotADirectoryError"]

Cwd == "/home/build"
RelativePaths == {"", "rel"}

\* os.path.exists
exists(p) == p \in Dirs \/ p \in host.files

\* os.path.join
join(dir, name) == dir \o "/" \o name

\* pathlib.Path(p).resolve(strict=True).as_posix(): a relative path is taken
\* from the working directory ('' is the working directory itself), links are
\* followed, a missing path raises FileNotFoundError.
resolve(p) ==
    LET a == IF p = "" THEN Cwd ELSE IF p \in RelativePaths THEN join(Cwd, p) ELSE p
    IN  IF a \in DOMAIN Faults THEN [exc |-> Faults[a], v |-> ""]
        ELSE IF a \in DOMAIN Links THEN [exc |-> NoExc, v |-> Links[a]]
        ELSE IF exists(a) THEN [exc |-> NoExc, v |-> a]
        ELSE [exc |-> "FileNotFoundError", v |-> ""]

-----------------------------------------------------------------------------
(* generate_bindings.py: the probes.  A function that returns a set returns *)
(* [exc, val]: val is the returned set when exc = NoExc, and exc names the  *)
(* exception that left the function otherwise.                              *)

Ok(paths) == [exc |-> NoExc, val |-> paths]
Raise(e) == [exc |-> e, val |-> {}]

\* standardize_paths: the possible outcomes.  The loop runs over a set, so
\* when several entries raise, which one is met first is not determined.
standardize_paths(paths) ==
    LET bad == {p \in paths : resolve(p).exc \notin {NoExc, "FileNotFoundError"}}
    IN  IF bad = {}
        THEN {Ok({resolve(p).v : p \in {q \in paths : resolve(q).exc = NoExc}})}
        ELSE {Raise(resolve(p).exc) : p \in bad}

\* _get_from_env of get_env_include_paths and get_env_library_paths
get_from_env(name) ==
    LET env == environ_get(name)
    IN  IF env.some /\ env.v # <<>> THEN Range(split_paths(env.v)) ELSE {}

get_env_include_paths ==
    get_from_env("YOGRT_INCLUDE_PATH") \cup get_from_env("CPATH")
        \cup get_from_env("C_INCLUDE_PATH")

get_env_library_paths ==
    get_from_env("YOGRT_LIBRARY_PATH") \cup get_from_env("LIBRARY_PATH")

\* A determine_compiler that looks on the search path before it reads CC.
determine_compiler_PathFirst ==
    LET cc == environ_get("CC")
    IN  IF Truthy(which("cc")) THEN which("cc")
        ELSE IF Truthy(which("gcc")) THEN which("gcc")
        ELSE IF Truthy(which("clang")) THEN which("clang")
        ELSE IF cc.some /\ cc.v # <<>> THEN Some(Str(cc.v))
        ELSE None

determine_compiler ==
    LET cc == environ_get("CC")
    IN  IF cc.some /\ cc.v # <<>> THEN Some(Str(cc.v))
        ELSE IF Truthy(which("cc")) THEN which("cc")
        ELSE IF Truthy(which("gcc")) THEN which("gcc")
        ELSE IF Truthy(which("clang")) THEN which("clang")
        ELSE None

\* determine_preprocessor: [exc, some, v], a str | None or an exception.
determine_preprocessor(compiler) ==
    LET r == check_output(compiler, host.progname)
    IN  IF r.exc = "CalledProcessError" THEN [exc |-> NoExc, some |-> FALSE, v |-> ""]
        ELSE IF r.exc # NoExc THEN [exc |-> r.exc, some |-> FALSE, v |-> ""]
        ELSE [exc |-> NoExc, some |-> TRUE, v |-> Str(Strip(r.out))]

IncludeStart == "#include <...> search starts here:"
IncludeEnd == "End of search list."

\* A parse_search_list whose slice begins at the start marker itself.
parse_search_list_FromMarker(text) ==
    LET output == Split(text, "\n")
        include_start == Index(output, <<IncludeStart>>)
        include_end == Index(output, <<IncludeEnd>>)
    IN  IF include_start = -1 THEN {}
        ELSE IF include_end = -1 THEN {}
        ELSE
        LET raw_paths == Slice(output, include_start, include_end)
        IN  {Str(Strip(raw_paths[i])) : i \in 1..Len(raw_paths)}

\* The parse of the `cpp -v` output in get_compiler_include_paths: the
\* stripped lines of output[include_start:include_end], where index raising
\* ValueError for either marker returns the empty set.
parse_search_list(text) ==
    LET output == Split(text, "\n")
        include_start == Index(output, <<IncludeStart>>) + 1
        include_end == Index(output, <<IncludeEnd>>)
    IN  IF include_start = 0 THEN {}
        ELSE IF include_end = -1 THEN {}
        ELSE
        LET raw_paths == Slice(output, include_start, include_end)
        IN  {Str(Strip(raw_paths[i])) : i \in 1..Len(raw_paths)}

get_compiler_include_paths ==
    LET compiler == determine_compiler
    IN  IF ~Truthy(compiler) THEN Ok({})
        ELSE
        LET cpp == determine_preprocessor(compiler.v)
        IN  IF cpp.exc # NoExc THEN Raise(cpp.exc)
            ELSE IF ~Truthy(cpp) THEN Ok({})
            ELSE
            LET r == check_output(cpp.v, host.cpp_v)
            IN  IF r.exc = "CalledProcessError" THEN Ok({})
                ELSE IF r.exc # NoExc THEN Raise(r.exc)
                ELSE Ok(parse_search_list(r.out))

LibraryPathPrefix == "LIBRARY_PATH="

get_compiler_library_paths ==
    LET compiler == determine_compiler
    IN  IF ~Truthy(compiler) THEN Ok({})
        ELSE
        LET cpp == determine_preprocessor(compiler.v)
        IN  IF cpp.exc # NoExc THEN Raise(cpp.exc)
            ELSE IF ~Truthy(cpp) THEN Ok({})
            ELSE
            LET r == check_output(cpp.v, host.cpp_v)
            IN  IF r.exc = "CalledProcessError" THEN Ok({})
                ELSE IF r.exc # NoExc THEN Raise(r.exc)
                ELSE
                LET output == Split(r.out, "\n")
                    hits == {i \in 1..Len(output) :
                                output[i] # <<>> /\ Head(output[i]) = LibraryPathPrefix}
                IN  Ok(UNION {Range(split_paths(Tail(output[i]))) : i \in hits})

LibName == "libyogrt.so"

\* line.startswith('libyogrt.so '): the name token, then a token that begins
\* with a space.
StartsWithLibName(line) ==
    Len(line) >= 2 /\ line[1] = LibName /\ line[2] \in {" ", " => "}

get_ldconfig_library_paths ==
    LET r == check_output("ldconfig", host.ldconfig)
    IN  IF r.exc = "CalledProcessError" THEN Ok({})
        ELSE IF r.exc # NoExc THEN Raise(r.exc)
        ELSE
        LET output == Split(r.out, "\n")
            hits == {i \in 1..Len(output) : StartsWithLibName(Strip(output[i]))}
            pieces(i) == Split(Strip(output[i]), " => ")
        IN  IF \E i \in hits : Len(pieces(i)) < 2 THEN Raise("IndexError")
            ELSE Ok({Str(pieces(i)[2]) : i \in hits})

-----------------------------------------------------------------------------
(* generate_bindings.py: the two terminal lookups and the preprocessing.    *)
(* find_yogrt_h and find_yogrt_lib are the sets of their possible outcomes: *)
(* both loop over a set, whose iteration order Python does not determine.   *)

HeaderName == "yogrt.h"
SharedLibName == "libyogrt.so"

HeaderNotFound == "RuntimeError: Could not find yogrt.h"
LibNotFound == "RuntimeError: Could not find libyogrt.so"
NoCompiler == "RuntimeError: Could not determine a compiler"

StdIncludeDirs == {"/usr/include", "/usr/local/include"}
StdLibDirs == {"/lib", "/lib64", "/usr/lib", "/usr/lib64", "/usr/local/lib",
               "/usr/local/lib64"}

\* A find_yogrt_h that does not add the two standard include directories.
find_yogrt_h_NoStandardDirs ==
    LET inc == get_compiler_include_paths
    IN  IF inc.exc # NoExc THEN {[exc |-> inc.exc, v |-> ""]}
        ELSE
        LET paths == get_env_include_paths \cup inc.val
            found(std) == {join(path, HeaderName) : path \in
                             {q \in std : exists(join(q, HeaderName))}}
        IN  UNION { IF std.exc # NoExc THEN {[exc |-> std.exc, v |-> ""]}
                    ELSE IF found(std.val) = {}
                    THEN {[exc |-> HeaderNotFound, v |-> ""]}
                    ELSE {[exc |-> NoExc, v |-> h] : h \in found(std.val)}
                  : std \in standardize_paths(paths) }

\* find_yogrt_h: outcomes [exc, v], v the returned header path.
find_yogrt_h ==
    LET inc == get_compiler_include_paths
    IN  IF inc.exc # NoExc THEN {[exc |-> inc.exc, v |-> ""]}
        ELSE
        LET paths == get_env_include_paths \cup inc.val \cup StdIncludeDirs
            found(std) == {join(path, HeaderName) : path \in
                             {q \in std : exists(join(q, HeaderName))}}
        IN  UNION { IF std.exc # NoExc THEN {[exc |-> std.exc, v |-> ""]}
                    ELSE IF found(std.val) = {}
                    THEN {[exc |-> HeaderNotFound, v |-> ""]}
                    ELSE {[exc |-> NoExc, v |-> h] : h \in found(std.val)}
                  : std \in standardize_paths(paths) }

\* A preprocess_header that does not check the compiler's exit status.
preprocess_header_Unchecked(header_path) ==
    LET cc == determine_compiler
    IN  IF ~Truthy(cc) THEN [exc |-> NoCompiler, out |-> <<>>]
        ELSE IF ~Executable(cc.v) THEN [exc |-> "FileNotFoundError", out |-> <<>>]
        ELSE [exc |-> NoExc, out |-> host.cc_E.out]

\* preprocess_header: [exc, out], out the preprocessed header text.
preprocess_header(header_path) ==
    LET cc == determine_compiler
    IN  IF ~Truthy(cc) THEN [exc |-> NoCompiler, out |-> <<>>]
        ELSE check_output(cc.v, host.cc_E)

\* A find_yogrt_lib that stops at the first directory holding the library.
find_yogrt_lib_FirstMatch ==
    LET comp == get_compiler_library_paths
    IN  IF comp.exc # NoExc THEN {Raise(comp.exc)}
        ELSE
        LET ld == get_ldconfig_library_paths
        IN  IF ld.exc # NoExc THEN {Raise(ld.exc)}
            ELSE
            LET paths == get_env_library_paths \cup comp.val \cup ld.val
                            \cup StdLibDirs
                with(std) == {path \in std : exists(join(path, SharedLibName))}
            IN  UNION { IF std.exc # NoExc THEN {Raise(std.exc)}
                        ELSE IF with(std.val) = {} THEN {Raise(LibNotFound)}
                        ELSE {Ok({path}) : path \in with(std.val)}
                      : std \in standardize_paths(paths) }

\* find_yogrt_lib: outcomes [exc, val], val the returned set of directories.
find_yogrt_lib ==
    LET comp == get_compiler_library_paths
    IN  IF comp.exc # NoExc THEN {Raise(comp.exc)}
        ELSE
        LET ld == get_ldconfig_library_paths
        IN  IF ld.exc # NoExc THEN {Raise(ld.exc)}
            ELSE
            LET paths == get_env_library_paths \cup comp.val \cup ld.val
                            \cup StdLibDirs
                with(std) == {path \in std : exists(join(path, SharedLibName))}
            IN  { IF std.exc # NoExc THEN Raise(std.exc)
                  ELSE IF with(std.val) = {} THEN Raise(LibNotFound)
                  ELSE Ok(with(std.val))
                : std \in standardize_paths(paths) }

-----------------------------------------------------------------------------
(* The host systems explored: the values each part of host ranges over.     *)

CCValues == {Unset, Set(<<>>), Set(<<"/opt/bin/mycc">>), Set(<<"/no/such/cc">>)}

CompilerNames == {"cc", "gcc", "clang"}

\* Values of the include-path and library-path variables.
IncludeValues == {Unset, Set(<<>>), Set(<<"/opt/yogrt/include">>),
                  Set(<<"/lnk/include", ":", "/ghost">>), Set(<<"/loop">>),
                  Set(<<"rel", ":">>)}
LibraryValues == {Unset, Set(<<>>), Set(<<"/opt/yogrt/lib">>),
                  Set(<<"/usr/lib", ":", "/opt/yogrt/lib">>),
                  Set(<<"/root/secret/lib">>), Set(<<"/etc/passwd/lib", ":", "/ghost">>)}

ProgNameRuns == {[rc |-> 0, out |-> <<"cpp", "\n">>], [rc |-> 0, out |-> <<"\n">>],
                 [rc |-> 0, out |-> <<"/no/such/cpp", "\n">>], [rc |-> 1, out |-> <<>>]}

\* `cpp -v` traces: well formed with three directories, with one directory,
\* without the start marker, without the end marker, with the end marker
\* first, with an indented start marker, and with no search list at all.
LibraryPathLine == <<LibraryPathPrefix, "/usr/lib/gcc", ":", "/opt/yogrt/lib", "\n">>
TraceThree ==
    <<"#include \"...\" search starts here:", "\n", IncludeStart, "\n",
      " ", "/usr/lib/gcc/include", "\n", " ", "/opt/yogrt/include", "\n",
      " ", "/usr/include", "\n", IncludeEnd, "\n">> \o LibraryPathLine
TraceOne == <<IncludeStart, "\n", " ", "/opt/yogrt/include", " ", "\n", IncludeEnd>>
TraceNoStart == <<"ignoring nonexistent directory", "\n", " ", "/opt/yogrt/include",
                  "\n", IncludeEnd, "\n">>
TraceNoEnd == <<IncludeStart, "\n", " ", "/opt/yogrt/include", "\n">> \o LibraryPathLine
TraceReversed == <<IncludeEnd, "\n", " ", "/opt/yogrt/include", "\n", IncludeStart, "\n">>
TraceIndented == <<" ", IncludeStart, "\n", " ", "/opt/yogrt/include", "\n",
                   IncludeEnd, "\n">>
TraceEmpty == <<>>

CppTraces == {TraceThree, TraceOne, TraceNoStart, TraceNoEnd, TraceReversed,
              TraceIndented, TraceEmpty}
CppRuns == {[rc |-> 0, out |-> t] : t \in CppTraces} \cup {[rc |-> 1, out |-> <<>>]}

\* `ldconfig -p` listings.
LdHead == <<"2 libs found in cache", "\n">>
LdVersionedLine == <<"\t", LibName, ".1", " ", "(libc6,x86-64)", " => ",
                     "/opt/yogrt/lib/libyogrt.so.1", "\n">>
LdExactLine == <<"\t", LibName, " ", "(libc6,x86-64)", " => ",
                 "/opt/yogrt/lib/libyogrt.so", "\n">>
LdNoArrowLine == <<"\t", LibName, " ", "(libc6,x86-64)", "\n">>
LdListings == {LdHead, LdHead \o LdVersionedLine,
               LdHead \o LdVersionedLine \o LdExactLine, LdHead \o LdNoArrowLine}
LdRuns == {[installed |-> TRUE, rc |-> 0, out |-> t] : t \in LdListings}
            \cup {[installed |-> TRUE, rc |-> 1, out |-> <<>>],
                  [installed |-> FALSE, rc |-> 0, out |-> <<>>]}

PreprocessedHeader == <<"int yogrt_remaining(void);", "\n">>
CcERuns == {[rc |-> 0, out |-> PreprocessedHeader], [rc |-> 1, out |-> <<>>]}

HeaderFiles == {"/usr/include/yogrt.h", "/opt/yogrt/include/yogrt.h"}
LibFiles == {"/usr/lib/libyogrt.so", "/opt/yogrt/lib/libyogrt.so",
             "/opt/yogrt/lib/libyogrt.so.1"}

\* A host with nothing set and every tool working.
BaseHost ==
    [environ |-> [n \in EnvNames |-> Unset],
     on_path |-> {"gcc"},
     progname |-> [rc |-> 0, out |-> <<"cpp", "\n">>],
     cpp_v |-> [rc |-> 0, out |-> TraceThree],
     ldconfig |-> [installed |-> TRUE, rc |-> 0, out |-> LdHead],
     cc_E |-> [rc |-> 0, out |-> PreprocessedHeader],
     files |-> {}]

\* How the compiler is found: not at all, on the search path, through CC, and
\* through a CC that names no executable.
CompilerSetups == {[cc |-> Unset, on_path |-> {}], [cc |-> Unset, on_path |-> {"gcc"}],
                   [cc |-> Set(<<"/opt/bin/mycc">>), on_path |-> {}],
                   [cc |-> Set(<<"/no/such/cc">>), on_path |-> {"gcc"}]}

WithCompiler(h, c) == [h EXCEPT !.environ["CC"] = c.cc, !.on_path = c.on_path]

-----------------------------------------------------------------------------
(* SpecCalls: each function of generate_bindings.py called once on a host.  *)
(* The initial state draws the function to call, its argument and the host  *)
(* it reads; the function's action calls it and records what it returned or *)
(* raised.  The run and wrapper variables rest.                             *)

FfiInit == [cdef_called |-> FALSE, cdef |-> <<>>, set_source_called |-> FALSE,
            libraries |-> {}, library_dirs |-> <<>>, runtime_library_dirs |-> <<>>,
            compiled |-> FALSE]

RunIdle ==
    /\ pc = "idle" /\ yogrt_h_path = "" /\ lib_paths = <<>> /\ header = <<>>
    /\ error = NoExc /\ ffi = FfiInit

NativeInit == [remaining |-> 0, interval1 |-> 0, interval2 |-> 0,
               interval2_start |-> 0, debug |-> 0, initialized |-> FALSE,
               has_init |-> FALSE]

WrapperIdle ==
    /\ native = NativeInit /\ wcall = [fn |-> "none", arg |-> 0]
    /\ wret = [exc |-> NoExc, v |-> 0]

CallsIdle == call = [fn |-> "none", arg |-> {}, done |-> TRUE] /\ ret = {}

Pending(fn, arg) == call = [fn |-> fn, arg |-> arg, done |-> FALSE] /\ ret = {}

PathArgs == {"/usr/include", "/lnk/include", "/lib", "/ghost", "/loop",
             "/root/secret/lib", "/etc/passwd/lib", "", "rel",
             "/opt/yogrt/lib/libyogrt.so"}

InitStandardizePaths ==
    \E paths \in SUBSET PathArgs, files \in {{}, LibFiles} :
        /\ host = [BaseHost EXCEPT !.files = files]
        /\ Pending("standardize_paths", paths)

InitGetEnvIncludePaths ==
    \E a \in IncludeValues, b \in IncludeValues, c \in IncludeValues :
        /\ host = [BaseHost EXCEPT !.environ["YOGRT_INCLUDE_PATH"] = a,
                                   !.environ["CPATH"] = b,
                                   !.environ["C_INCLUDE_PATH"] = c]
        /\ Pending("get_env_include_paths", {})

InitGetEnvLibraryPaths ==
    \E a \in LibraryValues, b \in LibraryValues, c \in LibraryValues :
        /\ host = [BaseHost EXCEPT !.environ["YOGRT_LIBRARY_PATH"] = a,
                                   !.environ["YOGRT_LIB_PATH"] = b,
                                   !.environ["LIBRARY_PATH"] = c]
        /\ Pending("get_env_library_paths", {})

InitDetermineCompiler ==
    \E cc \in CCValues, found \in SUBSET CompilerNames :
        /\ host = [BaseHost EXCEPT !.environ["CC"] = cc, !.on_path = found]
        /\ Pending("determine_compiler", {})

InitDeterminePreprocessor ==
    \E compiler \in {"/opt/bin/mycc", "/usr/bin/gcc", "/no/such/cc"},
       found \in {{}, {"gcc"}}, run \in ProgNameRuns :
        /\ host = [BaseHost EXCEPT !.on_path = found, !.progname = run]
        /\ Pending("determine_preprocessor", compiler)

InitGetCompilerPaths(fn) ==
    \E c \in CompilerSetups, prog \in ProgNameRuns, run \in CppRuns :
        /\ host = [WithCompiler(BaseHost, c) EXCEPT !.progname = prog, !.cpp_v = run]
        /\ Pending(fn, {})

InitGetLdconfigLibraryPaths ==
    \E run \in LdRuns :
        /\ host = [BaseHost EXCEPT !.ldconfig = run]
        /\ Pending("get_ldconfig_library_paths", {})

InitFindYogrtH ==
    \E c \in CompilerSetups, a \in IncludeValues, b \in {Unset, Set(<<"/usr/include">>)},
       prog \in {[rc |-> 0, out |-> <<"cpp", "\n">>], [rc |-> 1, out |-> <<>>]},
       run \in CppRuns, files \in SUBSET HeaderFiles :
        /\ host = [WithCompiler(BaseHost, c) EXCEPT
                        !.environ["YOGRT_INCLUDE_PATH"] = a, !.environ["CPATH"] = b,
                        !.progname = prog, !.cpp_v = run, !.files = files]
        /\ Pending("find_yogrt_h", {})

InitPreprocessHeader ==
    \E cc \in CCValues, found \in {{}, {"clang"}}, run \in CcERuns,
       header_path \in HeaderFiles :
        /\ host = [BaseHost EXCEPT !.environ["CC"] = cc, !.on_path = found,
                                   !.cc_E = run, !.files = {header_path}]
        /\ Pending("preprocess_header", header_path)

InitFindYogrtLib ==
    \E c \in CompilerSetups, a \in LibraryValues,
       b \in {Unset, Set(<<"/opt/yogrt/lib">>)},
       run \in {[rc |-> 0, out |-> TraceThree], [rc |-> 0, out |-> TraceEmpty],
                [rc |-> 1, out |-> <<>>]},
       ld \in LdRuns, files \in SUBSET LibFiles :
        /\ host = [WithCompiler(BaseHost, c) EXCEPT
                        !.environ["YOGRT_LIBRARY_PATH"] = a,
                        !.environ["YOGRT_LIB_PATH"] = b,
                        !.cpp_v = run, !.ldconfig = ld, !.files = files]
        /\ Pending("find_yogrt_lib", {})

InitCalls ==
    /\ \/ InitStandardizePaths
       \/ InitGetEnvIncludePaths
       \/ InitGetEnvLibraryPaths
       \/ InitDetermineCompiler
       \/ InitDeterminePreprocessor
       \/ InitGetCompilerPaths("get_compiler_include_paths")
       \/ InitGetCompilerPaths("get_compiler_library_paths")
       \/ InitGetLdconfigLibraryPaths
       \/ InitFindYogrtH
       \/ InitPreprocessHeader
       \/ InitFindYogrtLib
    /\ RunIdle /\ WrapperIdle

\* The pending call returns (or raises) r.
Return(r) ==
    /\ ~call.done
    /\ call' = [call EXCEPT !.done = TRUE]
    /\ ret' = r
    /\ UNCHANGED <<host, pc, yogrt_h_path, lib_paths, header, error, ffi,
                   native, wcall, wret>>

CallStandardizePaths ==
    /\ call.fn = "standardize_paths"
    /\ \E r \in standardize_paths(call.arg) : Return(r)

CallGetEnvIncludePaths ==
    /\ call.fn = "get_env_include_paths"
    /\ Return(Ok(get_env_include_paths))

CallGetEnvLibraryPaths ==
    /\ call.fn = "get_env_library_paths"
    /\ Return(Ok(get_env_library_paths))

CallDetermineCompiler ==
    /\ call.fn = "determine_compiler"
    /\ Return(determine_compiler)

CallDeterminePreprocessor ==
    /\ call.fn = "determine_preprocessor"
    /\ Return(determine_preprocessor(call.arg))

CallGetCompilerIncludePaths ==
    /\ call.fn = "get_compiler_include_paths"
    /\ Return(get_compiler_include_paths)

CallGetCompilerLibraryPaths ==
    /\ call.fn = "get_compiler_library_paths"
    /\ Return(get_compiler_library_paths)

CallGetLdconfigLibraryPaths ==
    /\ call.fn = "get_ldconfig_library_paths"
    /\ Return(get_ldconfig_library_paths)

CallFindYogrtH ==
    /\ call.fn = "find_yogrt_h"
    /\ \E r \in find_yogrt_h : Return(r)

CallPreprocessHeader ==
    /\ call.fn = "preprocess_header"
    /\ Return(preprocess_header(call.arg))

CallFindYogrtLib ==
    /\ call.fn = "find_yogrt_lib"
    /\ \E r \in find_yogrt_lib : Return(r)

NextCalls ==
    \/ CallStandardizePaths
    \/ CallGetEnvIncludePaths
    \/ CallGetEnvLibraryPaths
    \/ CallDetermineCompiler
    \/ CallDeterminePreprocessor
    \/ CallGetCompilerIncludePaths
    \/ CallGetCompilerLibraryPaths
    \/ CallGetLdconfigLibraryPaths
    \/ CallFindYogrtH
    \/ CallPreprocessHeader
    \/ CallFindYogrtLib

SpecCalls == InitCalls /\ [][NextCalls]_vars

-----------------------------------------------------------------------------
(* Spec: the module-level discovery run of generate_bindings.py (lines      *)
(* 265-280).  An exception raised by a step leaves the module: the run      *)
(* aborts and no later statement executes.                                  *)

RunHosts ==
    {[environ |-> [n \in EnvNames |->
                     CASE n = "CC" -> c.cc
                       [] n = "YOGRT_INCLUDE_PATH" -> inc
                       [] n = "YOGRT_LIBRARY_PATH" -> lib
                       [] OTHER -> Unset],
      on_path |-> c.on_path,
      progname |-> [rc |-> 0, out |-> <<"cpp", "\n">>],
      cpp_v |-> run,
      ldconfig |-> ld,
      cc_E |-> cce,
      files |-> hs \cup ls] :
        c \in CompilerSetups,
        inc \in {Unset, Set(<<"/opt/yogrt/include">>), Set(<<"/loop">>)},
        lib \in {Unset, Set(<<"/opt/yogrt/lib">>), Set(<<"/usr/lib", ":", "/ghost">>)},
        run \in {[rc |-> 0, out |-> TraceThree], [rc |-> 1, out |-> <<>>]},
        ld \in LdRuns, cce \in CcERuns,
        hs \in SUBSET HeaderFiles,
        ls \in SUBSET {"/usr/lib/libyogrt.so", "/opt/yogrt/lib/libyogrt.so"}}

\* list(s): the elements of s in some order.
ListsOf(s) ==
    {l \in [1..Cardinality(s) -> s] : \A i, j \in 1..Cardinality(s) : l[i] = l[j] => i = j}

Init ==
    /\ host \in RunHosts
    /\ pc = "find_yogrt_h"
    /\ yogrt_h_path = "" /\ lib_paths = <<>> /\ header = <<>>
    /\ error = NoExc /\ ffi = FfiInit
    /\ CallsIdle /\ WrapperIdle

Abort(e) == pc' = "aborted" /\ error' = e

\* yogrt_h_path = find_yogrt_h()
FindYogrtH ==
    /\ pc = "find_yogrt_h"
    /\ \E r \in find_yogrt_h :
        IF r.exc # NoExc
        THEN Abort(r.exc) /\ UNCHANGED yogrt_h_path
        ELSE yogrt_h_path' = r.v /\ pc' = "find_yogrt_lib" /\ UNCHANGED error
    /\ UNCHANGED <<host, call, ret, lib_paths, header, ffi, native, wcall, wret>>

\* lib_paths = list(find_yogrt_lib())
FindYogrtLib ==
    /\ pc = "find_yogrt_lib"
    /\ \E r \in find_yogrt_lib :
        IF r.exc # NoExc
        THEN Abort(r.exc) /\ UNCHANGED lib_paths
        ELSE /\ \E l \in ListsOf(r.val) : lib_paths' = l
             /\ pc' = "preprocess_header" /\ UNCHANGED error
    /\ UNCHANGED <<host, call, ret, yogrt_h_path, header, ffi, native, wcall, wret>>

\* header = preprocess_header(yogrt_h_path)
PreprocessHeader ==
    /\ pc = "preprocess_header"
    /\ LET r == preprocess_header(yogrt_h_path)
       IN  IF r.exc # NoExc
           THEN Abort(r.exc) /\ UNCHANGED header
           ELSE header' = r.out /\ pc' = "cdef" /\ UNCHANGED error
    /\ UNCHANGED <<host, call, ret, yogrt_h_path, lib_paths, ffi, native, wcall, wret>>

\* ffibuilder.cdef(header)
Cdef ==
    /\ pc = "cdef"
    /\ ffi' = [ffi EXCEPT !.cdef_called = TRUE, !.cdef = header]
    /\ pc' = "set_source"
    /\ UNCHANGED <<host, call, ret, yogrt_h_path, lib_paths, header, error,
                   native, wcall, wret>>

\* ffibuilder.set_source('yogrt._yogrt_c', ..., libraries=['yogrt'],
\*                       library_dirs=lib_paths, runtime_library_dirs=lib_paths)
SetSource ==
    /\ pc = "set_source"
    /\ ffi' = [ffi EXCEPT !.set_source_called = TRUE, !.libraries = {"yogrt"},
                          !.library_dirs = lib_paths,
                          !.runtime_library_dirs = lib_paths]
    /\ pc' = "main"
    /\ UNCHANGED <<host, call, ret, yogrt_h_path, lib_paths, header, error,
                   native, wcall, wret>>

\* if __name__ == '__main__': ffibuilder.compile()
Compile ==
    /\ pc = "main"
    /\ ffi' = [ffi EXCEPT !.compiled = TRUE]
    /\ pc' = "done"
    /\ UNCHANGED <<host, call, ret, yogrt_h_path, lib_paths, header, error,
                   native, wcall, wret>>

Next ==
    \/ FindYogrtH
    \/ FindYogrtLib
    \/ PreprocessHeader
    \/ Cdef
    \/ SetSource
    \/ Compile

Spec == Init /\ [][Next]_vars

-----------------------------------------------------------------------------
(* SpecYogrt: the wrapper functions of yogrt/__init__.py over the loaded    *)
(* native library.  native holds what libyogrt keeps: the cached remaining  *)
(* time, the three intervals, the debug level; has_init tells whether the   *)
(* library exports the newer yogrt_init / yogrt_fini.                       *)

MaxSeconds == 2
IntMax == 2147483647

Seconds == 0..MaxSeconds

\* The attributes of _yogrt_c_lib: the functions yogrt.h declares.
NativeSymbols ==
    {"yogrt_remaining", "yogrt_set_remaining", "yogrt_set_interval1",
     "yogrt_set_interval2", "yogrt_set_interval2_start", "yogrt_get_interval1",
     "yogrt_get_interval2", "yogrt_get_interval2_start", "yogrt_set_debug",
     "yogrt_get_debug"}
        \cup (IF native.has_init THEN {"yogrt_init", "yogrt_fini"} ELSE {})

\* The name each wrapper looks up on _yogrt_c_lib.
Entry(fn) ==
    CASE fn = "get_remaining" -> "yogrt_remaining"
      [] fn = "set_remaining" -> "yogrt_set_remaining"
      [] fn = "set_interval1" -> "yogrt_set_interval1"
      [] fn = "set_interval2" -> "yogrt_set_interval2"
      [] fn = "set_interval2_start" -> "set_interval2_start"
      [] fn = "get_interval1" -> "yogrt_get_interval1"
      [] fn = "get_interval2" -> "yogrt_get_interval2"
      [] fn = "get_interval2_start" -> "yogrt_get_interval2_start"
      [] fn = "set_debug" -> "yogrt_set_debug"
      [] fn = "get_debug" -> "yogrt_get_debug"
      [] fn = "init" -> "yogrt_init"
      [] fn = "fini" -> "yogrt_fini"

InitYogrt ==
    /\ \E b \in BOOLEAN : native = [NativeInit EXCEPT !.has_init = b]
    /\ wcall = [fn |-> "none", arg |-> 0]
    /\ wret = [exc |-> NoExc, v |-> 0]
    /\ host = BaseHost /\ CallsIdle /\ RunIdle

\* _yogrt_c_lib.<entry>(seconds) for an entry that stores its argument: the
\* attribute lookup raises AttributeError when the library has no such name.
NativeSet(entry, field, seconds) ==
    /\ IF entry \in NativeSymbols
       THEN /\ native' = [native EXCEPT ![field] = seconds]
            /\ wret' = [exc |-> NoExc, v |-> 0]
       ELSE /\ wret' = [exc |-> "AttributeError", v |-> 0]
            /\ UNCHANGED native
    /\ UNCHANGED <<host, call, ret, pc, yogrt_h_path, lib_paths, header, error, ffi>>

\* return _yogrt_c_lib.<entry>() for an entry that reads a field.
NativeGet(entry, field) ==
    /\ IF entry \in NativeSymbols
       THEN wret' = [exc |-> NoExc, v |-> native[field]]
       ELSE wret' = [exc |-> "AttributeError", v |-> 0]
    /\ UNCHANGED <<native, host, call, ret, pc, yogrt_h_path, lib_paths, header,
                   error, ffi>>

\* get_remaining: yogrt_remaining asks the resource manager, which answers
\* any number of seconds, or INT_MAX when it cannot be reached; the library
\* caches the answer.
GetRemaining ==
    /\ wcall' = [fn |-> "get_remaining", arg |-> 0]
    /\ IF Entry("get_remaining") \in NativeSymbols
       THEN \E r \in Seconds \cup {IntMax} :
                /\ native' = [native EXCEPT !.remaining = r]
                /\ wret' = [exc |-> NoExc, v |-> r]
       ELSE /\ wret' = [exc |-> "AttributeError", v |-> 0]
            /\ UNCHANGED native
    /\ UNCHANGED <<host, call, ret, pc, yogrt_h_path, lib_paths, header, error, ffi>>

SetRemaining ==
    \E seconds \in Seconds :
        /\ wcall' = [fn |-> "set_remaining", arg |-> seconds]
        /\ NativeSet(Entry("set_remaining"), "remaining", seconds)

SetInterval1 ==
    \E seconds \in Seconds :
        /\ wcall' = [fn |-> "set_interval1", arg |-> seconds]
        /\ NativeSet(Entry("set_interval1"), "interval1", seconds)

SetInterval2 ==
    \E seconds \in Seconds :
        /\ wcall' = [fn |-> "set_interval2", arg |-> seconds]
        /\ NativeSet(Entry("set_interval2"), "interval2", seconds)

SetInterval2Start ==
    \E seconds \in Seconds :
        /\ wcall' = [fn |-> "set_interval2_start", arg |-> seconds]
        /\ NativeSet(Entry("set_interval2_start"), "interval2_start", seconds)

GetInterval1 ==
    /\ wcall' = [fn |-> "get_interval1", arg |-> 0]
    /\ NativeGet(Entry("get_interval1"), "interval1")

GetInterval2 ==
    /\ wcall' = [fn |-> "get_interval2", arg |-> 0]
    /\ NativeGet(Entry("get_interval2"), "interval2")

GetInterval2Start ==
    /\ wcall' = [fn |-> "get_interval2_start", arg |-> 0]
    /\ NativeGet(Entry("get_interval2_start"), "interval2_start")

SetDebug ==
    \E val \in Seconds :
        /\ wcall' = [fn |-> "set_debug", arg |-> val]
        /\ NativeSet(Entry("set_debug"), "debug", val)

GetDebug ==
    /\ wcall' = [fn |-> "get_debug", arg |-> 0]
    /\ NativeGet(Entry("get_debug"), "debug")

\* init and fini are defined only when the library has yogrt_init.
YogrtInit ==
    /\ native.has_init
    /\ wcall' = [fn |-> "init", arg |-> 0]
    /\ NativeSet(Entry("init"), "initialized", TRUE)

YogrtFini ==
    /\ native.has_init
    /\ wcall' = [fn |-> "fini", arg |-> 0]
    /\ NativeSet(Entry("fini"), "initialized", FALSE)

NextYogrt ==
    \/ GetRemaining
    \/ SetRemaining
    \/ SetInterval1
    \/ SetInterval2
    \/ SetInterval2Start
    \/ GetInterval1
    \/ GetInterval2
    \/ GetInterval2Start
    \/ SetDebug
    \/ GetDebug
    \/ YogrtInit
    \/ YogrtFini

SpecYogrt == InitYogrt /\ [][NextYogrt]_vars

-----------------------------------------------------------------------------
(* Properties.  Returned(fn): the call of fn has returned or raised.        *)

Returned(fn) == call.fn = fn /\ call.done

\* Whether a variable of the environment is set to a non-empty value.
NonEmpty(name) == host.environ[name].some /\ host.environ[name].v # <<>>

\* C1: every discovery sub-probe is soft: whatever fails in it (a variable
\* unset, an executable missing, a non-zero exit, unparseable output), the
\* probe returns the empty set or 'not found' and raises nothing.
C1_ProbesAreSoft ==
    \A fn \in {"get_env_include_paths", "get_env_library_paths",
               "determine_preprocessor", "get_compiler_include_paths",
               "get_compiler_library_paths", "get_ldconfig_library_paths"} :
        Returned(fn) => ret.exc = NoExc

\* C2: determine_compiler returns CC when CC is set and non-empty, whatever
\* is on the search path; otherwise cc, else gcc, else clang from the search
\* path, first match wins; and None when CC is unset or empty and none of the
\* three is found.
C2_CompilerPriority ==
    Returned("determine_compiler") =>
        /\ NonEmpty("CC") => ret = Some(Str(host.environ["CC"].v))
        /\ ~NonEmpty("CC") =>
            /\ "cc" \in host.on_path => ret = Some("/usr/bin/cc")
            /\ "cc" \notin host.on_path /\ "gcc" \in host.on_path
                    => ret = Some("/usr/bin/gcc")
            /\ host.on_path = {"clang"} => ret = Some("/usr/bin/clang")
            /\ host.on_path = {} => ret = None

\* C2 witness: CC is set while cc, gcc and clang are all on the search path,
\* and determine_compiler returned the value of CC.
C2_Witness ==
    /\ Returned("determine_compiler")
    /\ host.environ["CC"] = Set(<<"/opt/bin/mycc">>)
    /\ host.on_path = CompilerNames
    /\ ret = Some("/opt/bin/mycc")

\* The merged library-path set of find_yogrt_lib and what becomes of it: the
\* three sources with the six fixed directories, each entry resolved, and
\* the directories among them that hold libyogrt.so.
LibSourcesOk ==
    get_compiler_library_paths.exc = NoExc /\ get_ldconfig_library_paths.exc = NoExc
LibRaw ==
    get_env_library_paths \cup get_compiler_library_paths.val
        \cup get_ldconfig_library_paths.val
        \cup {"/lib", "/lib64", "/usr/lib", "/usr/lib64", "/usr/local/lib",
              "/usr/local/lib64"}
LibNormalizes == \A p \in LibRaw : resolve(p).exc \in {NoExc, "FileNotFoundError"}
LibNormalized == {resolve(p).v : p \in {q \in LibRaw : resolve(q).exc = NoExc}}
LibHolders == {d \in LibNormalized : (d \o "/libyogrt.so") \in host.files}

IncSourcesOk == get_compiler_include_paths.exc = NoExc
IncRaw ==
    get_env_include_paths \cup get_compiler_include_paths.val
        \cup {"/usr/include", "/usr/local/include"}
IncNormalizes == \A p \in IncRaw : resolve(p).exc \in {NoExc, "FileNotFoundError"}
IncNormalized == {resolve(p).v : p \in {q \in IncRaw : resolve(q).exc = NoExc}}
IncHolders == {d \in IncNormalized : (d \o "/yogrt.h") \in host.files}

C5_StandardizeNeverRaises ==
    Returned("standardize_paths") =>
        /\ ret.exc = NoExc
        /\ ret.val = {resolve(p).v : p \in {q \in call.arg : resolve(q).exc = NoExc}}

\* C6: the library-path enumeration reads YOGRT_LIB_PATH: every directory
\* listed in it is in the set get_env_library_paths returns.
C6_YogrtLibPathConsumed ==
    (Returned("get_env_library_paths") /\ NonEmpty("YOGRT_LIB_PATH")) =>
        Range(split_paths(host.environ["YOGRT_LIB_PATH"].v)) \subseteq ret.val

\* The field of the native library each setter stores and each getter reads.
FieldOf(fn) ==
    CASE fn \in {"set_remaining", "get_remaining"} -> "remaining"
      [] fn \in {"set_interval1", "get_interval1"} -> "interval1"
      [] fn \in {"set_interval2", "get_interval2"} -> "interval2"
      [] fn \in {"set_interval2_start", "get_interval2_start"} -> "interval2_start"
      [] fn \in {"set_debug", "get_debug"} -> "debug"

\* C7: every public wrapper passes through to the native entry point: no
\* call fails on the lookup, a setter leaves its argument in the library, a
\* getter returns what the library holds, so that get_interval2_start after
\* set_interval2_start(s) yields s.
C7_WrappersPassThrough ==
    /\ wret.exc = NoExc
    /\ wcall.fn \in {"set_remaining", "set_interval1", "set_interval2",
                     "set_interval2_start", "set_debug"}
            => native[FieldOf(wcall.fn)] = wcall.arg
    /\ wcall.fn \in {"get_remaining", "get_interval1", "get_interval2",
                     "get_interval2_start", "get_debug"}
            => wret.v = native[FieldOf(wcall.fn)]

\* C8: no partial success.  cdef and set_source are called only after the
\* header was found, a non-empty list of directories holding the library was
\* found and the header was preprocessed by a resolved compiler that exited
\* with status 0; an aborted run has called neither; set_source is given the
\* same discovered list as link-time and as run-time search path.
C8_NoPartialSuccess ==
    /\ (ffi.cdef_called \/ ffi.set_source_called \/ ffi.compiled) =>
        /\ error = NoExc /\ pc # "aborted"
        /\ yogrt_h_path \in host.files
        /\ lib_paths # <<>>
        /\ \A d \in Range(lib_paths) : (d \o "/libyogrt.so") \in host.files
        /\ Truthy(determine_compiler) /\ host.cc_E.rc = 0
        /\ header = host.cc_E.out /\ ffi.cdef = header
    /\ pc = "aborted" =>
        /\ error # NoExc
        /\ ~ffi.cdef_called /\ ~ffi.set_source_called /\ ~ffi.compiled
    /\ ffi.set_source_called =>
        /\ ffi.cdef_called
        /\ ffi.library_dirs = lib_paths /\ ffi.runtime_library_dirs = lib_paths

\* C8 witness: a run that reached set_source with two library directories.
C8_Witness ==
    /\ ffi.set_source_called
    /\ Len(ffi.library_dirs) = 2
    /\ ffi.runtime_library_dirs = ffi.library_dirs

\* The lines of the `cpp -v` output and the places of the two markers.
TraceLines == Split(host.cpp_v.out, "\n")
StartLines == {i \in 1..Len(TraceLines) : TraceLines[i] = <<IncludeStart>>}
EndLines == {i \in 1..Len(TraceLines) : TraceLines[i] = <<IncludeEnd>>}
First(S) == CHOOSE i \in S : \A j \in S : i <= j

C10_LdconfigEffective ==
    (/\ Returned("find_yogrt_lib")
     /\ host.ldconfig = [installed |-> TRUE, rc |-> 0,
                         out |-> LdHead \o LdVersionedLine \o LdExactLine]
     /\ "/opt/yogrt/lib/libyogrt.so" \in host.files
     /\ ret.exc \in {NoExc, LibNotFound})
        => (ret.exc = NoExc /\ "/opt/yogrt/lib" \in ret.val)

====
